---- MODULE Spec2Model ----
(***************************************************************************)
(* The aggregation engine of trading-aggregator-rs: the three Report       *)
(* constructors (src/src/report.rs), the per-area ReportEntry accumulator  *)
(* and the five report queries.                                            *)
(*                                                                         *)
(* Decimal values are exact: each is an integer count of a fixed quantum.  *)
(*   quantity_mwh  in 1/Scale.qty   MWh                                    *)
(*   price         in 1/Scale.price currency units                         *)
(*   contract length in 1/Scale.len hours                                  *)
(*   mw totals        in 1/VolDen,  cash_flow totals in 1/CashDen          *)
(* Query results are integers in the quantum round_dp leaves: 1/100 for    *)
(* the monetary queries, 1/10 for the volume queries.  Delivery intervals  *)
(* are whole quarter hours, for which seconds / 3600.0 is an exact decimal.*)
(***************************************************************************)
EXTENDS Integers, Sequences, FiniteSets, TLC

VARIABLES
    pc,             \* position of the program: a constructor entry, the stream loop, "returned", "queried"
    delivery_from,  \* constructor argument
    delivery_to,    \* constructor argument
    trades,         \* constructor argument: Vec<Trade>, Vec<TradeForReport> or the producer's items
    pos,            \* number of items new_from_stream has pulled from the producer
    areas,          \* the local HashMap<Area, ReportEntry> of a running new_from_stream
    result,         \* what the constructor returned: Ok(Report) or Err(error)
    query,          \* the last query made on the report
    qres            \* what that query returned: a value, or a panic

vars == <<pc, delivery_from, delivery_to, trades, pos, areas, result, query, qres>>

\* Longest trade sequence handed to a constructor.
MaxTrades == 3

Scale == [qty |-> 100, price |-> 100, len |-> 4]
VolDen == Scale.qty * Scale.len
CashDen == VolDen * Scale.price

SecondsPerHour == 3600

(***************************************************************************)
(* trade.rs                                                                *)
(***************************************************************************)
Area == {"Amp", "DK1", "DK2", "FR", "GB", "NL", "NO2", "SE1", "SE3"}

TradeSide == {"Buy", "Sell"}

TradeType == {"Intraday", "Imbalance", "AuctionGbDahH", "AuctionGbDahHh",
              "AuctionGbId1Hh", "AuctionGbId2Hh", "AuctionEurDahH",
              "AuctionEurId1H", "AuctionEurId2H", "AuctionEurId3H"}

Market == {"Auction", "Intraday", "Imbalance"}

\* Market::iter(): the variants in declaration order.
MarketIter == <<"Auction", "Intraday", "Imbalance">>

\* impl From<TradeType> for Market
MarketFrom(value) ==
    CASE value = "Intraday" -> "Intraday"
      [] value = "Imbalance" -> "Imbalance"
      [] value \in {"AuctionGbDahH", "AuctionGbDahHh", "AuctionGbId1Hh",
                    "AuctionGbId2Hh", "AuctionEurDahH", "AuctionEurId1H",
                    "AuctionEurId2H", "AuctionEurId3H"} -> "Auction"

MarketSelection == {[kind |-> "All"]} \cup [kind : {"Specific"}, market : Market]

\* Option<Decimal>
None == [some |-> FALSE]
Some(v) == [some |-> TRUE, value |-> v]

\* struct Trade (id and counter_part are carried, never read by the report)
Trade(area, side, type, price, qty, start, end) ==
    [area |-> area, trade_side |-> side, trade_type |-> type, price |-> price,
     quantity_mwh |-> qty, delivery_start |-> start, delivery_end |-> end]

(***************************************************************************)
(* The trades the constructors are given.  Times are seconds.              *)
(***************************************************************************)
Trades ==
    { Trade("DK1", "Buy",  "Intraday",       Some(5000), 1000, 0, 3600),
      Trade("DK1", "Sell", "AuctionEurDahH", Some(8000),  400, 0, 3600),
      Trade("DK2", "Buy",  "Intraday",       Some(6000),  500, 0, 3600),
      Trade("DK1", "Sell", "AuctionGbDahH",  Some(2),     -25, 3600, 7200),
      Trade("DK2", "Sell", "Intraday",       Some(2),      50, 0, 1800),
      Trade("DK1", "Buy",  "Imbalance",      Some(2),     -25, 0, 7200),
      Trade("DK1", "Buy",  "Intraday",       None,        300, 0, 3600),
      Trade("DK2", "Sell", "Imbalance",      None,       -200, 0, 3600) }

\* The areas queries name: those of the trades.
TradeAreas == {t.area : t \in Trades}

AreaSelection == {[kind |-> "All"]} \cup [kind : {"Specific"}, area : TradeAreas]

\* struct TradeForReport: a Trade without the side tag.
ForReport(t) ==
    [area |-> t.area, trade_type |-> t.trade_type, price |-> t.price,
     quantity_mwh |-> t.quantity_mwh, delivery_start |-> t.delivery_start,
     delivery_end |-> t.delivery_end]

\* A priced trade of quantity zero, in the side-less shape.
ZeroQuantity ==
    [area |-> "DK1", trade_type |-> "AuctionEurId1H", price |-> Some(3000),
     quantity_mwh |-> 0, delivery_start |-> 0, delivery_end |-> 3600]

TradesForReport == {ForReport(t) : t \in Trades} \cup {ZeroQuantity}

\* Stream items: Result<Trade, sqlx::Error>
OkItem(t) == [tag |-> "Ok", trade |-> t]
ErrItem == [tag |-> "Err", error |-> "sqlx"]
StreamItems == {OkItem(t) : t \in Trades} \cup {ErrItem}

\* delivery_from / delivery_to of the report window.
Times == {0, 1}

RECURSIVE SeqsUpTo(_, _)
SeqsUpTo(S, n) ==
    IF n = 0 THEN {<<>>}
    ELSE LET shorter == SeqsUpTo(S, n - 1)
         IN shorter \cup {Append(s, x) : s \in {q \in shorter : Len(q) = n - 1}, x \in S}

(***************************************************************************)
(* HashMap                                                                 *)
(***************************************************************************)
EmptyMap == <<>>

MapInsert(m, k, v) == [x \in DOMAIN m \cup {k} |-> IF x = k THEN v ELSE m[x]]

\* Mutant: the sign of the quantity is kept.
AbsSigned(x) == x

\* Decimal::abs
Abs(x) == IF x < 0 THEN -x ELSE x

(***************************************************************************)
(* report.rs: ReportEntry                                                  *)
(***************************************************************************)
Ok(v) == [tag |-> "Ok", value |-> v]
Err(e) == [tag |-> "Err", error |-> e]

\* Mutant: every new entry is made for the area DK1.
ReportEntry_new_one_area(area) ==
    [area |-> "DK1", mw |-> EmptyMap, cash_flow |-> EmptyMap]

\* ReportEntry::new
ReportEntry_new(area) == [area |-> area, mw |-> EmptyMap, cash_flow |-> EmptyMap]

\* Mutant: every contract counts as one hour long.
contract_length_one_hour(delivery_start, delivery_end) == Ok(Scale.len)

\* contract_length: whole seconds / 3600.0, in 1/Scale.len hours.
\* Decimal::from_i64 is Some for every i64, so the Err arm is never taken.
contract_length(delivery_start, delivery_end) ==
    LET delta_seconds == delivery_end - delivery_start
    IN Ok((delta_seconds * Scale.len) \div SecondsPerHour)

\* Mutant: the bucket is overwritten by the last amount instead of increased.
AddAssignOverwrite(m, key, amount) == MapInsert(m, key, amount)

\* *map.entry(key).or_insert(Decimal::ZERO) += amount
AddAssign(m, key, amount) ==
    MapInsert(m, key, (IF key \in DOMAIN m THEN m[key] ELSE 0) + amount)

\* Mutant: a trade without a price still adds its volume.
ReportEntry_add_trade_unpriced_volume(self, trade) ==
    IF trade.area # self.area
    THEN Err("Trade area has to match ReportEntry area")
    ELSE LET trade_side == trade.trade_side
             market == MarketFrom(trade.trade_type)
             cl == contract_length(trade.delivery_start, trade.delivery_end)
         IN IF cl.tag = "Err" THEN cl
            ELSE LET abs_length_adjusted_quantity ==
                         Abs(trade.quantity_mwh) * cl.value
                 IN IF ~trade.price.some
                    THEN Ok([self EXCEPT
                              !.mw = AddAssign(@, <<trade_side, market>>,
                                               abs_length_adjusted_quantity)])
                    ELSE Ok([self EXCEPT
                              !.mw = AddAssign(@, <<trade_side, market>>,
                                               abs_length_adjusted_quantity),
                              !.cash_flow = AddAssign(@, <<trade_side, market>>,
                                               abs_length_adjusted_quantity
                                                  * trade.price.value)])

\* ReportEntry::add_trade
ReportEntry_add_trade(self, trade) ==
    IF trade.area # self.area
    THEN Err("Trade area has to match ReportEntry area")
    ELSE IF ~trade.price.some THEN Ok(self)
    ELSE LET trade_price == trade.price.value
             trade_side == trade.trade_side
             market == MarketFrom(trade.trade_type)
             cl == contract_length(trade.delivery_start, trade.delivery_end)
         IN IF cl.tag = "Err" THEN cl
            ELSE LET abs_length_adjusted_quantity ==
                         Abs(trade.quantity_mwh) * cl.value
                 IN Ok([self EXCEPT
                         !.mw = AddAssign(@, <<trade_side, market>>,
                                          abs_length_adjusted_quantity),
                         !.cash_flow = AddAssign(@, <<trade_side, market>>,
                                          abs_length_adjusted_quantity * trade_price)])

\* Mutant: a quantity of zero is taken for a sale (<= for <).
ReportEntry_add_trade_for_report_zero_sells(self, trade) ==
    IF trade.area # self.area
    THEN Err("Trade area has to match ReportEntry area")
    ELSE IF ~trade.price.some THEN Ok(self)
    ELSE LET trade_price == trade.price.value
             trade_side == IF trade.quantity_mwh <= 0 THEN "Sell" ELSE "Buy"
             market == MarketFrom(trade.trade_type)
             cl == contract_length(trade.delivery_start, trade.delivery_end)
         IN IF cl.tag = "Err" THEN cl
            ELSE LET abs_length_adjusted_quantity ==
                         Abs(trade.quantity_mwh) * cl.value
                 IN Ok([self EXCEPT
                         !.mw = AddAssign(@, <<trade_side, market>>,
                                          abs_length_adjusted_quantity),
                         !.cash_flow = AddAssign(@, <<trade_side, market>>,
                                          abs_length_adjusted_quantity * trade_price)])

\* ReportEntry::add_trade_for_report
ReportEntry_add_trade_for_report(self, trade) ==
    IF trade.area # self.area
    THEN Err("Trade area has to match ReportEntry area")
    ELSE IF ~trade.price.some THEN Ok(self)
    ELSE LET trade_price == trade.price.value
             trade_side == IF trade.quantity_mwh < 0 THEN "Sell" ELSE "Buy"
             market == MarketFrom(trade.trade_type)
             cl == contract_length(trade.delivery_start, trade.delivery_end)
         IN IF cl.tag = "Err" THEN cl
            ELSE LET abs_length_adjusted_quantity ==
                         Abs(trade.quantity_mwh) * cl.value
                 IN Ok([self EXCEPT
                         !.mw = AddAssign(@, <<trade_side, market>>,
                                          abs_length_adjusted_quantity),
                         !.cash_flow = AddAssign(@, <<trade_side, market>>,
                                          abs_length_adjusted_quantity * trade_price)])

\* The entry behind &mut self after a call of add_trade or add_trade_for_report
\* that returned r: both Err returns (the bail! and the ? of contract_length)
\* come before the first assignment to self.
SelfAfter(self, r) == IF r.tag = "Ok" THEN r.value ELSE self

\* A panic of the querying thread (Option::unwrap on None).
Panic == [tag |-> "Panic"]

\* map.get(&key).unwrap_or(&Decimal::ZERO)
GetOrZero(m, key) == IF key \in DOMAIN m THEN m[key] ELSE 0

\* *map.get(&key).unwrap()
GetUnwrap(m, key) == IF key \in DOMAIN m THEN Ok(m[key]) ELSE Panic

\* Mutant: the last market of Market::iter() is left out of the sum.
SumMarketsButLast(m, side) ==
    LET S[i \in 0..(Len(MarketIter) - 1)] ==
            IF i = 0 THEN 0 ELSE S[i - 1] + GetOrZero(m, <<side, MarketIter[i]>>)
    IN S[Len(MarketIter) - 1]

\* Market::iter().map(|market| *map.get(&(side, market)).unwrap_or(&ZERO)).sum()
SumMarkets(m, side) ==
    LET S[i \in 0..Len(MarketIter)] ==
            IF i = 0 THEN 0 ELSE S[i - 1] + GetOrZero(m, <<side, MarketIter[i]>>)
    IN S[Len(MarketIter)]

\* ReportEntry::revenue
ReportEntry_revenue(self, market) ==
    IF market.kind = "Specific"
    THEN GetUnwrap(self.cash_flow, <<"Sell", market.market>>)
    ELSE Ok(SumMarkets(self.cash_flow, "Sell"))

\* Mutant: costs reads the Sell buckets.
ReportEntry_costs_of_sales(self, market) ==
    IF market.kind = "Specific"
    THEN GetUnwrap(self.cash_flow, <<"Sell", market.market>>)
    ELSE Ok(SumMarkets(self.cash_flow, "Sell"))

\* ReportEntry::costs
ReportEntry_costs(self, market) ==
    IF market.kind = "Specific"
    THEN GetUnwrap(self.cash_flow, <<"Buy", market.market>>)
    ELSE Ok(SumMarkets(self.cash_flow, "Buy"))

\* ReportEntry::mw_sold
ReportEntry_mw_sold(self, market) ==
    IF market.kind = "Specific"
    THEN GetUnwrap(self.mw, <<"Sell", market.market>>)
    ELSE Ok(SumMarkets(self.mw, "Sell"))

\* ReportEntry::mw_bought
ReportEntry_mw_bought(self, market) ==
    IF market.kind = "Specific"
    THEN GetUnwrap(self.mw, <<"Buy", market.market>>)
    ELSE Ok(SumMarkets(self.mw, "Buy"))

\* ReportEntry::gross_profit: revenue is evaluated first, then costs.
ReportEntry_gross_profit(self, market) ==
    LET r == ReportEntry_revenue(self, market)
        c == ReportEntry_costs(self, market)
    IN IF r.tag = "Panic" \/ c.tag = "Panic" THEN Panic
       ELSE Ok(r.value - c.value)

(***************************************************************************)
(* report.rs: Report                                                       *)
(***************************************************************************)
WindowError == "delivery_from has to be before delivery_to"

MakeReport(from, to, as) ==
    [delivery_from |-> from, delivery_to |-> to, areas |-> as]

\* The for loop of Report::new from index i on: Ok(areas), or the first Err.
RECURSIVE NewLoop(_, _, _)
NewLoop(as, ts, i) ==
    IF i > Len(ts) THEN Ok(as)
    ELSE LET trade == ts[i]
             area == trade.area
             inserted == IF area \in DOMAIN as THEN as
                         ELSE MapInsert(as, area, ReportEntry_new(area))
             r == ReportEntry_add_trade(inserted[area], trade)
         IN IF r.tag = "Err" THEN r
            ELSE NewLoop(MapInsert(inserted, area, r.value), ts, i + 1)

\* Mutant: a window of equal bounds is rejected too.
Report_new_strict_window(from, to, ts) ==
    IF to <= from THEN Err(WindowError)
    ELSE LET folded == NewLoop(EmptyMap, ts, 1)
         IN IF folded.tag = "Err" THEN folded
            ELSE Ok(MakeReport(from, to, folded.value))

\* Report::new
Report_new(from, to, ts) ==
    IF to < from THEN Err(WindowError)
    ELSE LET folded == NewLoop(EmptyMap, ts, 1)
         IN IF folded.tag = "Err" THEN folded
            ELSE Ok(MakeReport(from, to, folded.value))

\* The for loop of Report::new_from_trade_for_report from index i on.
RECURSIVE ForReportLoop(_, _, _)
ForReportLoop(as, ts, i) ==
    IF i > Len(ts) THEN Ok(as)
    ELSE LET trade == ts[i]
             area == trade.area
             inserted == IF area \in DOMAIN as THEN as
                         ELSE MapInsert(as, area, ReportEntry_new(area))
             r == ReportEntry_add_trade_for_report(inserted[area], trade)
         IN IF r.tag = "Err" THEN r
            ELSE ForReportLoop(MapInsert(inserted, area, r.value), ts, i + 1)

\* Report::new_from_trade_for_report
Report_new_from_trade_for_report(from, to, ts) ==
    IF to < from THEN Err(WindowError)
    ELSE LET folded == ForReportLoop(EmptyMap, ts, 1)
         IN IF folded.tag = "Err" THEN folded
            ELSE Ok(MakeReport(from, to, folded.value))

\* Mutant: an entry is created only when the trade has a price.
StreamBodyPricedOnly(as, trade) ==
    IF ~trade.price.some THEN Ok(as)
    ELSE LET area == trade.area
             inserted == IF area \in DOMAIN as THEN as
                         ELSE MapInsert(as, area, ReportEntry_new(area))
             r == ReportEntry_add_trade(inserted[area], trade)
         IN IF r.tag = "Err" THEN r
            ELSE Ok(MapInsert(inserted, area, r.value))

\* Mutant: the area's entry is inserted afresh for every trade (insert for
\* entry().or_insert()).
StreamBodyInsert(as, trade) ==
    LET area == trade.area
        inserted == MapInsert(as, area, ReportEntry_new(area))
        r == ReportEntry_add_trade(inserted[area], trade)
    IN IF r.tag = "Err" THEN r
       ELSE Ok(MapInsert(inserted, area, r.value))

\* The body of the while loop of Report::new_from_stream for one pulled trade.
StreamBody(as, trade) ==
    LET area == trade.area
        inserted == IF area \in DOMAIN as THEN as
                    ELSE MapInsert(as, area, ReportEntry_new(area))
        r == ReportEntry_add_trade(inserted[area], trade)
    IN IF r.tag = "Err" THEN r
       ELSE Ok(MapInsert(inserted, area, r.value))

\* The closure handed to aggregate_metric by the query of that name.
Aggregator(name, entry, market) ==
    CASE name = "revenue" -> ReportEntry_revenue(entry, market)
      [] name = "costs" -> ReportEntry_costs(entry, market)
      [] name = "mw_sold" -> ReportEntry_mw_sold(entry, market)
      [] name = "mw_bought" -> ReportEntry_mw_bought(entry, market)
      [] name = "gross_profit" -> ReportEntry_gross_profit(entry, market)

RECURSIVE SumValues(_, _)
SumValues(f, S) ==
    IF S = {} THEN 0
    ELSE LET x == CHOOSE y \in S : TRUE
         IN f[x].value + SumValues(f, S \ {x})

Pow10(dp) == IF dp = 0 THEN 1 ELSE IF dp = 1 THEN 10 ELSE 100

\* Decimal::round_dp (midpoint to nearest even) of n/den, in units of 10^-dp.
round_dp(n, den, dp) ==
    LET k == den \div Pow10(dp)
        q == n \div k
        r == n % k
    IN IF 2 * r < k THEN q
       ELSE IF 2 * r > k THEN q + 1
       ELSE IF q % 2 = 0 THEN q ELSE q + 1

\* Mutant: every area's total is rounded to the query's decimal places before
\* the areas are summed.
aggregate_metric_round_each(self, market, area_selection, aggregator) ==
    LET cash == aggregator \in {"revenue", "costs", "gross_profit"}
        den == IF cash THEN CashDen ELSE VolDen
        dp == IF cash THEN 2 ELSE 1
    IN IF area_selection.kind = "Specific"
       THEN IF area_selection.area \in DOMAIN self.areas
            THEN Aggregator(aggregator, self.areas[area_selection.area], market)
            ELSE Ok(0)
       ELSE LET each == [a \in DOMAIN self.areas |->
                            Aggregator(aggregator, self.areas[a], market)]
                rounded == [a \in DOMAIN each |->
                              Ok(round_dp(each[a].value, den, dp) * (den \div Pow10(dp)))]
            IN IF \E a \in DOMAIN each : each[a].tag = "Panic" THEN Panic
               ELSE Ok(SumValues(rounded, DOMAIN rounded))

\* Mutant: the selected area is looked up with unwrap instead of map_or.
aggregate_metric_unwrap_area(self, market, area_selection, aggregator) ==
    IF area_selection.kind = "Specific"
    THEN IF area_selection.area \in DOMAIN self.areas
         THEN Aggregator(aggregator, self.areas[area_selection.area], market)
         ELSE Panic
    ELSE LET each == [a \in DOMAIN self.areas |->
                         Aggregator(aggregator, self.areas[a], market)]
         IN IF \E a \in DOMAIN each : each[a].tag = "Panic" THEN Panic
            ELSE Ok(SumValues(each, DOMAIN each))

\* Report::aggregate_metric
aggregate_metric(self, market, area_selection, aggregator) ==
    IF area_selection.kind = "Specific"
    THEN IF area_selection.area \in DOMAIN self.areas
         THEN Aggregator(aggregator, self.areas[area_selection.area], market)
         ELSE Ok(0)
    ELSE LET each == [a \in DOMAIN self.areas |->
                         Aggregator(aggregator, self.areas[a], market)]
         IN IF \E a \in DOMAIN each : each[a].tag = "Panic" THEN Panic
            ELSE Ok(SumValues(each, DOMAIN each))

Rounded(summed, den, dp) ==
    IF summed.tag = "Panic" THEN Panic ELSE Ok(round_dp(summed.value, den, dp))

\* Report::revenue
Report_revenue(self, market, area) ==
    Rounded(aggregate_metric(self, market, area, "revenue"), CashDen, 2)

\* Report::costs
Report_costs(self, market, area) ==
    Rounded(aggregate_metric(self, market, area, "costs"), CashDen, 2)

\* Report::mw_sold
Report_mw_sold(self, market, area) ==
    Rounded(aggregate_metric(self, market, area, "mw_sold"), VolDen, 1)

\* Report::mw_bought
Report_mw_bought(self, market, area) ==
    Rounded(aggregate_metric(self, market, area, "mw_bought"), VolDen, 1)

\* Mutant: gross profit as the difference of the two rounded public results.
Report_gross_profit_of_rounded(self, market, area) ==
    LET r == Report_revenue(self, market, area)
        c == Report_costs(self, market, area)
    IN IF r.tag = "Panic" \/ c.tag = "Panic" THEN Panic
       ELSE Ok(r.value - c.value)

\* Report::gross_profit
Report_gross_profit(self, market, area) ==
    Rounded(aggregate_metric(self, market, area, "gross_profit"), CashDen, 2)

Metrics == {"revenue", "costs", "mw_sold", "mw_bought", "gross_profit"}

\* A call of one of the five public queries.
Call(self, metric, market, area) ==
    CASE metric = "revenue" -> Report_revenue(self, market, area)
      [] metric = "costs" -> Report_costs(self, market, area)
      [] metric = "mw_sold" -> Report_mw_sold(self, market, area)
      [] metric = "mw_bought" -> Report_mw_bought(self, market, area)
      [] metric = "gross_profit" -> Report_gross_profit(self, market, area)

(***************************************************************************)
(* The program: one constructor call, then queries on the report.          *)
(***************************************************************************)
NoResult == [tag |-> "None"]
NoQuery == [metric |-> "none"]

Init ==
    /\ pc \in {"new", "new_from_trade_for_report", "new_from_stream"}
    /\ delivery_from \in Times
    /\ delivery_to \in Times
    /\ trades \in CASE pc = "new" -> SeqsUpTo(Trades, MaxTrades)
                    [] pc = "new_from_trade_for_report" ->
                           SeqsUpTo(TradesForReport, MaxTrades)
                    [] pc = "new_from_stream" -> SeqsUpTo(StreamItems, MaxTrades)
    /\ pos = 0
    /\ areas = EmptyMap
    /\ result = NoResult
    /\ query = NoQuery
    /\ qres = NoResult

\* The constructor returns: its arguments and locals are dropped.
Return(r) ==
    /\ pc' = "returned"
    /\ result' = r
    /\ trades' = <<>>
    /\ areas' = EmptyMap
    /\ UNCHANGED <<delivery_from, delivery_to, query, qres>>

\* Report::new
New ==
    /\ pc = "new"
    /\ Return(Report_new(delivery_from, delivery_to, trades))
    /\ UNCHANGED pos

\* Report::new_from_trade_for_report
NewFromTradeForReport ==
    /\ pc = "new_from_trade_for_report"
    /\ Return(Report_new_from_trade_for_report(delivery_from, delivery_to, trades))
    /\ UNCHANGED pos

\* Report::new_from_stream up to its first await.
StreamEnter ==
    /\ pc = "new_from_stream"
    /\ IF delivery_to < delivery_from
       THEN Return(Err(WindowError)) /\ UNCHANGED pos
       ELSE /\ pc' = "try_next"
            /\ areas' = EmptyMap
            /\ UNCHANGED <<delivery_from, delivery_to, trades, pos, result, query, qres>>

\* Mutant: a failed item is skipped and the loop goes on.
StreamNextSkipErr ==
    /\ pc = "try_next"
    /\ IF pos = Len(trades)
       THEN /\ Return(Ok(MakeReport(delivery_from, delivery_to, areas)))
            /\ UNCHANGED pos
       ELSE LET item == trades[pos + 1]
            IN /\ pos' = pos + 1
               /\ IF item.tag = "Err"
                  THEN UNCHANGED <<pc, delivery_from, delivery_to, trades, areas,
                                   result, query, qres>>
                  ELSE LET r == StreamBody(areas, item.trade)
                       IN IF r.tag = "Err"
                          THEN Return(r)
                          ELSE /\ areas' = r.value
                               /\ UNCHANGED <<pc, delivery_from, delivery_to,
                                              trades, result, query, qres>>

\* trades_iter.try_next().await resolves, and the code up to the next await runs.
StreamNext ==
    /\ pc = "try_next"
    /\ IF pos = Len(trades)
       THEN \* the producer is exhausted: Ok(None)
            /\ Return(Ok(MakeReport(delivery_from, delivery_to, areas)))
            /\ UNCHANGED pos
       ELSE LET item == trades[pos + 1]
            IN /\ pos' = pos + 1
               /\ IF item.tag = "Err"
                  THEN Return(Err(item.error))
                  ELSE LET r == StreamBody(areas, item.trade)
                       IN IF r.tag = "Err"
                          THEN Return(r)
                          ELSE /\ areas' = r.value
                               /\ UNCHANGED <<pc, delivery_from, delivery_to,
                                              trades, result, query, qres>>

\* One of the five queries on the report the constructor returned.  Queries
\* only read the report, so one query per run shows them all.
Query ==
    /\ pc = "returned"
    /\ result.tag = "Ok"
    /\ \E metric \in Metrics, market \in MarketSelection, area \in AreaSelection :
          /\ query' = [metric |-> metric, market |-> market, area |-> area]
          /\ qres' = Call(result.value, metric, market, area)
    /\ pc' = "queried"
    /\ UNCHANGED <<delivery_from, delivery_to, trades, pos, areas, result>>

Next == New \/ NewFromTradeForReport \/ StreamEnter \/ StreamNext \/ Query

Spec == Init /\ [][Next]_vars


(***************************************************************************)
(* Reference definitions the properties are stated with.                   *)
(***************************************************************************)
Queried == pc = "queried"

\* The sides, and the totals map, a query of `metric` reads.
SidesRead(metric) ==
    CASE metric \in {"revenue", "mw_sold"} -> {"Sell"}
      [] metric \in {"costs", "mw_bought"} -> {"Buy"}
      [] metric = "gross_profit" -> {"Sell", "Buy"}

TotalsRead(entry, metric) ==
    IF metric \in {"mw_sold", "mw_bought"} THEN entry.mw ELSE entry.cash_flow

\* No bucket that a Specific(m) query of `metric` reads was ever written.
NeverWritten(entry, metric, m) ==
    \A side \in SidesRead(metric) : <<side, m>> \notin DOMAIN TotalsRead(entry, metric)

RECURSIVE SumOf(_, _)
SumOf(f, S) ==
    IF S = {} THEN 0
    ELSE LET x == CHOOSE y \in S : TRUE
         IN f[x] + SumOf(f, S \ {x})

\* The stored, unrounded total of `side` in `field` ("mw" or "cash_flow") over
\* the selected areas and markets, a bucket never written counting as zero.
ExactSelected(rep, field, side, market, area) ==
    LET As == IF area.kind = "All" THEN DOMAIN rep.areas
              ELSE {area.area} \cap DOMAIN rep.areas
        Ms == IF market.kind = "All" THEN Market ELSE {market.market}
        cells == As \X Ms
        f == [c \in cells |->
                 LET m == rep.areas[c[1]][field]
                 IN IF <<side, c[2]>> \in DOMAIN m THEN m[<<side, c[2]>>] ELSE 0]
    IN SumOf(f, cells)

\* trades without its i-th element.
RemoveAt(ts, i) == [j \in 1..(Len(ts) - 1) |-> IF j < i THEN ts[j] ELSE ts[j + 1]]

(***************************************************************************)
(* C1: a query with MarketSelection::Specific(m) whose bucket was never    *)
(* written for a present area returns zero and does not panic; with        *)
(* AreaSelection::All it does not panic when a present area lacks the      *)
(* bucket.  The code unwraps the missing key instead.                      *)
(***************************************************************************)
C1_AbsentBucketReadsZero ==
    (Queried /\ query.market.kind = "Specific") =>
        LET rep == result.value
            m == query.market.market
        IN /\ ( /\ query.area.kind = "Specific"
                /\ query.area.area \in DOMAIN rep.areas
                /\ NeverWritten(rep.areas[query.area.area], query.metric, m) )
              => qres = Ok(0)
           /\ ( /\ query.area.kind = "All"
                /\ \E a \in DOMAIN rep.areas :
                      NeverWritten(rep.areas[a], query.metric, m) )
              => qres.tag = "Ok"

(***************************************************************************)
(* C2 as claimed: whenever the three queries return, the public            *)
(* gross_profit equals the public revenue minus the public costs.          *)
(***************************************************************************)
C2_GrossProfitIsRevenueMinusCosts ==
    (Queried /\ query.metric = "gross_profit") =>
        LET rev == Report_revenue(result.value, query.market, query.area)
            cost == Report_costs(result.value, query.market, query.area)
        IN (qres.tag = "Ok" /\ rev.tag = "Ok" /\ cost.tag = "Ok")
              => qres.value = rev.value - cost.value

(***************************************************************************)
(* C2 amended: gross_profit panics exactly when revenue or costs panics;   *)
(* otherwise it is the unrounded revenue total minus the unrounded costs   *)
(* total, rounded once to 2 decimal places, which is within 0.01 of the    *)
(* public revenue minus the public costs.                                  *)
(***************************************************************************)
C2_GrossProfitRoundsTheDifference ==
    (Queried /\ query.metric = "gross_profit") =>
        LET rev == Report_revenue(result.value, query.market, query.area)
            cost == Report_costs(result.value, query.market, query.area)
            sold == ExactSelected(result.value, "cash_flow", "Sell",
                                  query.market, query.area)
            bought == ExactSelected(result.value, "cash_flow", "Buy",
                                    query.market, query.area)
        IN /\ (qres.tag = "Panic") <=> (rev.tag = "Panic" \/ cost.tag = "Panic")
           /\ qres.tag = "Ok" =>
                 /\ qres.value = round_dp(sold - bought, CashDen, 2)
                 /\ Abs(qres.value - (rev.value - cost.value)) <= 1

\* C2 witness: a gross_profit that differs from revenue - costs by one cent.
C2_Witness ==
    /\ Queried /\ query.metric = "gross_profit" /\ qres.tag = "Ok"
    /\ LET rev == Report_revenue(result.value, query.market, query.area)
           cost == Report_costs(result.value, query.market, query.area)
       IN rev.tag = "Ok" /\ cost.tag = "Ok"
          /\ Abs(qres.value - (rev.value - cost.value)) = 1

(***************************************************************************)
(* C3: a trade without a price contributes nothing to any query: the       *)
(* report Report::new builds from trades answers every query as the report *)
(* built from trades without that trade does.  The code panics where the   *)
(* unpriced trade created the only entry of its area.                      *)
(***************************************************************************)
C3_UnpricedTradeChangesNoQuery ==
    [][ (pc = "new" /\ delivery_from <= delivery_to) =>
          \A i \in 1..Len(trades) :
             ~trades[i].price.some =>
                LET without == Report_new(delivery_from, delivery_to,
                                          RemoveAt(trades, i)).value
                IN \A metric \in Metrics, market \in MarketSelection,
                      area \in AreaSelection :
                      Call(result'.value, metric, market, area)
                         = Call(without, metric, market, area) ]_vars


\* ts reordered by the permutation p of its indices.
Permute(ts, p) == [i \in 1..Len(ts) |-> ts[p[i]]]

\* The result of the bulk constructor entered at `entry` on the trades ts.
Bulk(entry, ts) ==
    IF entry = "new" THEN Report_new(delivery_from, delivery_to, ts)
    ELSE Report_new_from_trade_for_report(delivery_from, delivery_to, ts)

BulkEntries == {"new", "new_from_trade_for_report"}

(***************************************************************************)
(* C4: order-independence of the fold.  What a bulk constructor returns    *)
(* for its trades is what it returns for every permutation of them: the    *)
(* same areas and the same totals in every bucket.                         *)
(***************************************************************************)
C4_FoldIsOrderIndependent ==
    [][ (pc \in BulkEntries) =>
          \A p \in Permutations(1..Len(trades)) :
             result' = Bulk(pc, Permute(trades, p)) ]_vars

\* C4 witness: a report whose DK1 (Sell, Auction) bucket holds two different
\* trades, beside an entry for DK2.
C4_Witness ==
    /\ pc = "returned" /\ pos = 0 /\ result.tag = "Ok"
    /\ DOMAIN result.value.areas = {"DK1", "DK2"}
    /\ <<"Sell", "Auction">> \in DOMAIN result.value.areas["DK1"].cash_flow
    /\ result.value.areas["DK1"].cash_flow[<<"Sell", "Auction">>]
          = 400 * 4 * 8000 + 25 * 4 * 2

\* The areas of the trades a constructor was given.
AreasOf(ts) == {(IF "trade" \in DOMAIN ts[i] THEN ts[i].trade ELSE ts[i]).area :
                   i \in DOMAIN ts}

\* A constructor returns a report in this step.
ReturnsReport ==
    /\ pc \in BulkEntries \cup {"try_next"}
    /\ pc' = "returned"
    /\ result'.tag = "Ok"

\* The last query selected an area the report has no entry for.
AbsentAreaQueried ==
    /\ Queried
    /\ query.area.kind = "Specific"
    /\ query.area.area \notin DOMAIN result.value.areas

(***************************************************************************)
(* C5: the report's areas are exactly those some trade was routed to, and  *)
(* a query with AreaSelection::Specific(a) for an area a that is not among *)
(* them returns zero, for every metric and every market selector, without  *)
(* a panic.                                                                *)
(***************************************************************************)
C5_AbsentAreaReadsZero ==
    /\ [][ReturnsReport => DOMAIN result'.value.areas = AreasOf(trades)]_vars
    /\ [](AbsentAreaQueried => qres = Ok(0))

\* C5 witness: a Specific-market query on an area absent from a report that
\* has another area.
C5_Witness ==
    /\ Queried /\ query.area.kind = "Specific" /\ query.market.kind = "Specific"
    /\ query.area.area \notin DOMAIN result.value.areas
    /\ result.value.areas # EmptyMap
    /\ qres = Ok(0)

\* The total of one side of an entry over the three markets, absent as zero.
BucketOrZero(m, side, market) ==
    IF <<side, market>> \in DOMAIN m THEN m[<<side, market>>] ELSE 0

ThreeMarkets(m, side) ==
    BucketOrZero(m, side, "Auction") + BucketOrZero(m, side, "Intraday")
       + BucketOrZero(m, side, "Imbalance")

AreaTotal(entry, metric) ==
    CASE metric = "revenue" -> ThreeMarkets(entry.cash_flow, "Sell")
      [] metric = "costs" -> ThreeMarkets(entry.cash_flow, "Buy")
      [] metric = "mw_sold" -> ThreeMarkets(entry.mw, "Sell")
      [] metric = "mw_bought" -> ThreeMarkets(entry.mw, "Buy")
      [] metric = "gross_profit" ->
            ThreeMarkets(entry.cash_flow, "Sell") - ThreeMarkets(entry.cash_flow, "Buy")

\* The denominator and the decimal places of a metric's public result.
MetricDen(metric) == IF metric \in {"mw_sold", "mw_bought"} THEN VolDen ELSE CashDen
MetricDp(metric) == IF metric \in {"mw_sold", "mw_bought"} THEN 1 ELSE 2

(***************************************************************************)
(* C6: with MarketSelection::All every metric of an area is the sum of     *)
(* that side's Auction, Intraday and Imbalance buckets, a bucket never     *)
(* written counting as zero, and the query does not panic whichever        *)
(* buckets are present.                                                    *)
(***************************************************************************)
C6_AllMarketsSumsTheThree ==
    (Queried /\ query.market.kind = "All") =>
        LET rep == result.value
        IN /\ qres.tag = "Ok"
           /\ \A a \in DOMAIN rep.areas :
                 Aggregator(query.metric, rep.areas[a], query.market)
                    = Ok(AreaTotal(rep.areas[a], query.metric))
           /\ (query.area.kind = "Specific" /\ query.area.area \in DOMAIN rep.areas)
                 => qres.value = round_dp(AreaTotal(rep.areas[query.area.area],
                                                    query.metric),
                                          MetricDen(query.metric),
                                          MetricDp(query.metric))

\* C6 witness: an all-markets query on an area with an Imbalance bucket
\* written and an Auction bucket never written.
C6_Witness ==
    /\ Queried /\ query.market.kind = "All" /\ query.area.kind = "Specific"
    /\ query.area.area \in DOMAIN result.value.areas
    /\ LET m == TotalsRead(result.value.areas[query.area.area], query.metric)
       IN \E side \in SidesRead(query.metric) :
             /\ <<side, "Imbalance">> \in DOMAIN m
             /\ <<side, "Auction">> \notin DOMAIN m
    /\ qres.tag = "Ok" /\ qres.value # 0


Entries == BulkEntries \cup {"new_from_stream"}

Returned == pc \in {"returned", "queried"}

\* The producer's items are all Ok.
NoFailingItem == \A i \in DOMAIN trades : trades[i].tag = "Ok"

\* new_from_stream returns in this step.
StreamReturns == pc = "try_next" /\ pc' = "returned"

(***************************************************************************)
(* C7: each of the three constructors returns the window error when        *)
(* delivery_to is earlier than delivery_from, whatever its trades and with *)
(* no item pulled from the producer; with delivery_from <= delivery_to,    *)
(* equal bounds included, the bulk constructors return a report, and       *)
(* new_from_stream enters its loop and returns a report when no item       *)
(* fails.                                                                  *)
(***************************************************************************)
C7_WindowIsCheckedFirst ==
    /\ [][ (pc \in Entries /\ delivery_to < delivery_from)
             => (pc' = "returned" /\ result' = Err(WindowError) /\ pos' = 0) ]_vars
    /\ [][ (pc \in BulkEntries /\ delivery_from <= delivery_to)
             => (pc' = "returned" /\ result'.tag = "Ok") ]_vars
    /\ [][ (pc = "new_from_stream" /\ delivery_from <= delivery_to)
             => (pc' = "try_next" /\ pos' = 0) ]_vars
    /\ [][ (StreamReturns /\ NoFailingItem) => result'.tag = "Ok" ]_vars
    /\ [](pc = "try_next" => delivery_from <= delivery_to)

\* C7 witness: a constructor has returned the window error.
C7_Witness ==
    /\ pc = "returned" /\ delivery_to < delivery_from
    /\ result = Err(WindowError) /\ pos = 0

(***************************************************************************)
(* C8: bulk and lazy-pull construction are equivalent.  When               *)
(* new_from_stream returns after a producer with no failing item, its      *)
(* result is the result of Report::new on the same trades as a Vec.        *)
(***************************************************************************)
C8_StreamEqualsBulk ==
    [][ (StreamReturns /\ NoFailingItem)
          => result' = Report_new(delivery_from, delivery_to,
                                  [i \in DOMAIN trades |-> trades[i].trade]) ]_vars

\* C8 witness: new_from_stream returned a report of three pulled trades, two
\* of them in the DK1 (Sell, Auction) bucket.
C8_Witness ==
    /\ pc = "returned" /\ pos = 3 /\ result.tag = "Ok"
    /\ DOMAIN result.value.areas = {"DK1", "DK2"}
    /\ <<"Sell", "Auction">> \in DOMAIN result.value.areas["DK1"].mw
    /\ result.value.areas["DK1"].mw[<<"Sell", "Auction">>] = 400 * 4 + 25 * 4

\* The items new_from_stream has pulled so far, as trades.
Pulled == [i \in 1..pos |-> trades[i].trade]

(***************************************************************************)
(* C9: lazy-pull construction is fail-fast.  While new_from_stream runs,   *)
(* the items pulled so far were all Ok and areas is their fold in yield    *)
(* order; each step pulls one item; a step that pulls a failed item        *)
(* returns that item's error; an error is returned only for the item just  *)
(* pulled (it failed, or its fold did); a returned error carries no report *)
(* and allows no query; and after the return no further item is pulled.    *)
(***************************************************************************)
C9_StreamFailsFast ==
    /\ [](pc = "try_next" =>
            /\ pos <= Len(trades)
            /\ \A i \in 1..pos : trades[i].tag = "Ok"
            /\ NewLoop(EmptyMap, Pulled, 1) = Ok(areas))
    /\ [][ (pc = "try_next")
             => (pos' = IF pos = Len(trades) THEN pos ELSE pos + 1) ]_vars
    /\ [][ (pc = "try_next" /\ pos < Len(trades) /\ trades[pos + 1].tag = "Err")
             => /\ pc' = "returned"
                /\ result' = Err(trades[pos + 1].error)
                /\ areas' = EmptyMap ]_vars
    /\ [][ (StreamReturns /\ result'.tag = "Err")
             => /\ pos' = pos + 1
                /\ \/ trades[pos'].tag = "Err"
                   \/ StreamBody(areas, trades[pos'].trade) = result' ]_vars
    /\ []((Returned /\ result.tag = "Err")
             => (pc = "returned" /\ DOMAIN result = {"tag", "error"}))
    /\ [][ Returned => pos' = pos ]_vars

\* C9 witness: new_from_stream returned the producer's error at the second
\* item, after folding the first.
C9_Witness ==
    /\ pc = "returned" /\ pos = 2
    /\ result = Err(ErrItem.error)

\* The unrounded total a query of `metric` rounds.
ExactMetric(rep, metric, market, area) ==
    LET field == IF metric \in {"mw_sold", "mw_bought"} THEN "mw" ELSE "cash_flow"
    IN IF metric = "gross_profit"
       THEN ExactSelected(rep, field, "Sell", market, area)
               - ExactSelected(rep, field, "Buy", market, area)
       ELSE ExactSelected(rep, field, CHOOSE side \in SidesRead(metric) : TRUE,
                          market, area)

\* The trade of a constructor argument, and the side it is accumulated under.
TradeOf(item) == IF "trade" \in DOMAIN item THEN item.trade ELSE item

SideOf(t) ==
    IF "trade_side" \in DOMAIN t THEN t.trade_side
    ELSE IF t.quantity_mwh < 0 THEN "Sell" ELSE "Buy"

\* |quantity| x hours of one trade, in 1/VolDen, and its notional in 1/CashDen.
ExactVolume(t) ==
    (Abs(t.quantity_mwh) * (t.delivery_end - t.delivery_start) * Scale.len)
       \div SecondsPerHour

ExactCash(t) == ExactVolume(t) * t.price.value

\* The exact total of the priced trades of ts in the bucket (a, side, m).
ExactBucket(ts, a, side, m, field) ==
    LET hits == {i \in DOMAIN ts :
                    LET t == TradeOf(ts[i])
                    IN /\ t.price.some
                       /\ t.area = a
                       /\ SideOf(t) = side
                       /\ MarketFrom(t.trade_type) = m}
        f == [i \in hits |-> IF field = "mw" THEN ExactVolume(TradeOf(ts[i]))
                             ELSE ExactCash(TradeOf(ts[i]))]
    IN SumOf(f, hits)

(***************************************************************************)
(* C10: rounding is applied once, at the query.  Every bucket of a         *)
(* returned report holds the exact sum of |quantity| x hours (x price) of  *)
(* its trades; a query that returns, returns the stored totals of the      *)
(* selected areas and markets summed unrounded and then rounded, to 2      *)
(* decimal places for revenue, costs and gross_profit and to 1 for mw_sold *)
(* and mw_bought.                                                          *)
(***************************************************************************)
C10_RoundedOnceAtTheQuery ==
    /\ [][ ReturnsReport =>
             \A a \in DOMAIN result'.value.areas, side \in TradeSide, m \in Market :
                /\ BucketOrZero(result'.value.areas[a].mw, side, m)
                      = ExactBucket(trades, a, side, m, "mw")
                /\ BucketOrZero(result'.value.areas[a].cash_flow, side, m)
                      = ExactBucket(trades, a, side, m, "cash_flow") ]_vars
    /\ []((Queried /\ qres.tag = "Ok") =>
             qres.value = round_dp(ExactMetric(result.value, query.metric,
                                               query.market, query.area),
                                   MetricDen(query.metric), MetricDp(query.metric)))

\* C10 witness: revenue over all areas is 0.01 while the revenue of each of
\* the two areas rounds to 0.00.
C10_Witness ==
    /\ Queried /\ query.metric = "revenue"
    /\ query.market.kind = "All" /\ query.area.kind = "All"
    /\ DOMAIN result.value.areas = {"DK1", "DK2"}
    /\ \A a \in DOMAIN result.value.areas :
          round_dp(AreaTotal(result.value.areas[a], "revenue"), CashDen, 2) = 0
    /\ qres = Ok(1)

\* The three one-hour trades of the end-to-end scenario: area A is DK1, area B
\* is DK2; 10 MWh at 50, 4 MWh at 80 and 5 MWh at 60.
Scenario ==
    << Trade("DK1", "Buy",  "Intraday",       Some(5000), 1000, 0, 3600),
       Trade("DK1", "Sell", "AuctionEurDahH", Some(8000),  400, 0, 3600),
       Trade("DK2", "Buy",  "Intraday",       Some(6000),  500, 0, 3600) >>

AllMarkets == [kind |-> "All"]
OneArea(a) == [kind |-> "Specific", area |-> a]

(***************************************************************************)
(* C11: end-to-end scenario.  The report Report::new builds from the three *)
(* scenario trades, in any order, answers revenue(All, A) = 320.00,        *)
(* costs(All, A) = 500.00, gross_profit(All, A) = -180.00 and              *)
(* mw_bought(All, B) = 5.0.                                                *)
(***************************************************************************)
C11_EndToEndScenario ==
    [][ ( /\ pc = "new"
          /\ delivery_from <= delivery_to
          /\ \E p \in Permutations(1..Len(Scenario)) : trades = Permute(Scenario, p) )
        => /\ result'.tag = "Ok"
           /\ Report_revenue(result'.value, AllMarkets, OneArea("DK1")) = Ok(32000)
           /\ Report_costs(result'.value, AllMarkets, OneArea("DK1")) = Ok(50000)
           /\ Report_gross_profit(result'.value, AllMarkets, OneArea("DK1"))
                 = Ok(-18000)
           /\ Report_mw_bought(result'.value, AllMarkets, OneArea("DK2")) = Ok(50)
      ]_vars

\* C11 witness: the scenario's report was asked gross_profit(All, A) and
\* answered -180.00.
C11_Witness ==
    /\ Queried
    /\ result = Report_new(delivery_from, delivery_to, Scenario)
    /\ query = [metric |-> "gross_profit", market |-> AllMarkets,
                area |-> OneArea("DK1")]
    /\ qres = Ok(-18000)

\* The bucket key a trade with a side tag is accumulated under.
KeyOf(t) == <<t.trade_side, MarketFrom(t.trade_type)>>

\* The raw quantity |quantity| of a trade, in 1/VolDen.
RawQuantity(t) == Abs(t.quantity_mwh) * Scale.len

\* entry `after` is entry `before` with the bucket `key` increased by vol in
\* mw and by cash in cash_flow, and nothing else changed.
IncreasesOneBucket(before, after, key, vol, cash) ==
    /\ after.area = before.area
    /\ DOMAIN after.mw = DOMAIN before.mw \cup {key}
    /\ DOMAIN after.cash_flow = DOMAIN before.cash_flow \cup {key}
    /\ after.mw[key] = BucketOrZero(before.mw, key[1], key[2]) + vol
    /\ after.cash_flow[key] = BucketOrZero(before.cash_flow, key[1], key[2]) + cash
    /\ \A k \in DOMAIN before.mw \ {key} : after.mw[k] = before.mw[k]
    /\ \A k \in DOMAIN before.cash_flow \ {key} :
          after.cash_flow[k] = before.cash_flow[k]

\* new_from_stream pulls an Ok item in this step.
PullsTrade == pc = "try_next" /\ pos < Len(trades) /\ trades[pos + 1].tag = "Ok"

(***************************************************************************)
(* C12: add_trade of a priced trade whose area is the entry's increases    *)
(* exactly the bucket (trade_side, Market::from(trade_type)): mw by        *)
(* |quantity| x hours (twice the raw quantity for a 2-hour interval, the   *)
(* raw quantity for a 1-hour interval) and cash_flow by that volume x      *)
(* price.  Every other bucket of the entry and every other area's entry is *)
(* left as it was.                                                         *)
(***************************************************************************)
C12_AddTradeIncreasesOneBucket ==
    /\ [](pc = "try_next" =>
            \A t \in Trades :
               (t.price.some /\ t.area \in DOMAIN areas) =>
                  LET before == areas[t.area]
                      r == ReportEntry_add_trade(before, t)
                      key == KeyOf(t)
                      added == r.value.mw[key] - BucketOrZero(before.mw, key[1], key[2])
                  IN /\ r.tag = "Ok"
                     /\ IncreasesOneBucket(before, r.value, key,
                                           ExactVolume(t), ExactVolume(t) * t.price.value)
                     /\ t.delivery_end - t.delivery_start = 2 * SecondsPerHour
                           => added = 2 * RawQuantity(t)
                     /\ t.delivery_end - t.delivery_start = SecondsPerHour
                           => added = RawQuantity(t))
    /\ [][ (PullsTrade /\ trades[pos + 1].trade.price.some) =>
             LET t == trades[pos + 1].trade
                 before == IF t.area \in DOMAIN areas THEN areas[t.area]
                           ELSE ReportEntry_new(t.area)
             IN /\ pc' = "try_next"
                /\ DOMAIN areas' = DOMAIN areas \cup {t.area}
                /\ IncreasesOneBucket(before, areas'[t.area], KeyOf(t),
                                      ExactVolume(t), ExactVolume(t) * t.price.value)
                /\ \A a \in DOMAIN areas \ {t.area} : areas'[a] = areas[a] ]_vars

\* C12 witness: the third pulled trade, 2 hours long in DK1, has doubled its
\* raw quantity into (Buy, Imbalance) beside another bucket and an entry of DK2.
C12_Witness ==
    /\ pc = "try_next" /\ pos = 3
    /\ trades[3].tag = "Ok"
    /\ trades[3].trade.delivery_end - trades[3].trade.delivery_start
          = 2 * SecondsPerHour
    /\ trades[3].trade.area = "DK1"
    /\ DOMAIN areas = {"DK1", "DK2"}
    /\ DOMAIN areas["DK1"].mw = {<<"Buy", "Imbalance">>, <<"Buy", "Intraday">>}
    /\ areas["DK1"].mw[<<"Buy", "Imbalance">>] = 2 * RawQuantity(trades[3].trade)

\* A side-less trade tagged with the side its quantity's sign stands for.
Tagged(t) ==
    Trade(t.area, IF t.quantity_mwh < 0 THEN "Sell" ELSE "Buy", t.trade_type,
          t.price, t.quantity_mwh, t.delivery_start, t.delivery_end)

\* The magnitudes |quantity| x hours of the priced trades of ts in area a and
\* market m whose quantity is negative (negative = TRUE) or is not, summed.
VolumeBySign(ts, a, m, negative) ==
    LET hits == {i \in DOMAIN ts :
                    /\ ts[i].price.some
                    /\ ts[i].area = a
                    /\ MarketFrom(ts[i].trade_type) = m
                    /\ (ts[i].quantity_mwh < 0) = negative}
        f == [i \in hits |-> ExactVolume(ts[i])]
    IN SumOf(f, hits)

(***************************************************************************)
(* C13: add_trade_for_report takes the side from the sign of quantity      *)
(* alone: a priced trade of negative quantity goes to the Sell bucket of   *)
(* its market, one of zero or positive quantity to the Buy bucket, and     *)
(* what is added to mw is |quantity| x hours in both cases.  So            *)
(* new_from_trade_for_report returns what Report::new returns for the same *)
(* trades tagged with that side.                                           *)
(***************************************************************************)
C13_SideFromSignOfQuantity ==
    [][ (pc = "new_from_trade_for_report") =>
          /\ result' = Report_new(delivery_from, delivery_to,
                                  [i \in DOMAIN trades |-> Tagged(trades[i])])
          /\ result'.tag = "Ok" =>
                /\ \A i \in DOMAIN trades :
                      trades[i].price.some =>
                         <<IF trades[i].quantity_mwh < 0 THEN "Sell" ELSE "Buy",
                           MarketFrom(trades[i].trade_type)>>
                            \in DOMAIN result'.value.areas[trades[i].area].mw
                /\ \A a \in DOMAIN result'.value.areas, m \in Market :
                      LET mw == result'.value.areas[a].mw
                      IN /\ BucketOrZero(mw, "Sell", m)
                               = VolumeBySign(trades, a, m, TRUE)
                         /\ BucketOrZero(mw, "Buy", m)
                               = VolumeBySign(trades, a, m, FALSE)
                         /\ <<"Sell", m>> \in DOMAIN mw =>
                               \E i \in DOMAIN trades :
                                  /\ trades[i].area = a
                                  /\ trades[i].quantity_mwh < 0 ]_vars

\* C13 witness: a report whose DK1 (Buy, Auction) bucket was written by the
\* trade of quantity zero alone, beside a (Sell, Auction) bucket written by a
\* trade of negative quantity.
C13_Witness ==
    /\ pc = "returned" /\ pos = 0 /\ result.tag = "Ok"
    /\ "DK1" \in DOMAIN result.value.areas
    /\ LET mw == result.value.areas["DK1"].mw
       IN /\ <<"Buy", "Auction">> \in DOMAIN mw
          /\ <<"Sell", "Auction">> \in DOMAIN mw
          /\ mw[<<"Buy", "Auction">>] = 0
          /\ mw[<<"Sell", "Auction">>] = 25 * Scale.len

\* Every volume bucket of every entry of the areas map `as` is non-negative.
NonNegative(as) ==
    \A a \in DOMAIN as : \A k \in DOMAIN as[a].mw : as[a].mw[k] >= 0

\* No volume bucket of `before` is missing from, or larger than in, `after`.
NeverLess(before, after) ==
    \A a \in DOMAIN before :
       /\ a \in DOMAIN after
       /\ \A k \in DOMAIN before[a].mw :
             /\ k \in DOMAIN after[a].mw
             /\ after[a].mw[k] >= before[a].mw[k]

\* The areas map a bulk constructor entered at `entry` holds after the first
\* k trades of ts.
FoldedPrefix(entry, ts, k) ==
    IF entry = "new" THEN NewLoop(EmptyMap, SubSeq(ts, 1, k), 1)
    ELSE ForReportLoop(EmptyMap, SubSeq(ts, 1, k), 1)

(***************************************************************************)
(* C14: stored volume is a magnitude.  Through every add of every          *)
(* constructor (all trades have delivery_end >= delivery_start) every      *)
(* volume bucket of every area is non-negative and no smaller than before  *)
(* the add, whatever the sign of the trade's quantity and whatever its     *)
(* side tag.                                                               *)
(***************************************************************************)
C14_VolumeIsAMagnitude ==
    /\ [](pc = "try_next" => NonNegative(areas))
    /\ []((Returned /\ result.tag = "Ok") => NonNegative(result.value.areas))
    /\ [][ PullsTrade => (pc' = "try_next" /\ NeverLess(areas, areas')) ]_vars
    /\ [][ (StreamReturns /\ result'.tag = "Ok") => result'.value.areas = areas ]_vars
    /\ [][ (pc \in BulkEntries) =>
             \A k \in 1..Len(trades) :
                LET before == FoldedPrefix(pc, trades, k - 1)
                    after == FoldedPrefix(pc, trades, k)
                IN /\ before.tag = "Ok" /\ after.tag = "Ok"
                   /\ NonNegative(after.value)
                   /\ NeverLess(before.value, after.value)
                   /\ k = Len(trades) /\ delivery_from <= delivery_to
                         => result'.value.areas = after.value ]_vars

\* C14 witness: new_from_stream has added a Sell trade and a Buy trade, both
\* of negative quantity, and holds a positive volume for each.
C14_Witness ==
    /\ pc = "try_next" /\ pos = 2
    /\ trades[1].trade.quantity_mwh < 0 /\ trades[1].trade.trade_side = "Sell"
    /\ trades[2].trade.quantity_mwh < 0 /\ trades[2].trade.trade_side = "Buy"
    /\ "DK1" \in DOMAIN areas
    /\ DOMAIN areas["DK1"].mw = {<<"Sell", "Auction">>, <<"Buy", "Imbalance">>}
    /\ areas["DK1"].mw[<<"Sell", "Auction">>] = 25 * Scale.len
    /\ areas["DK1"].mw[<<"Buy", "Imbalance">>] = 2 * 25 * Scale.len

\* Every entry of the areas map `as` is stored under its own area.
Routed(as) == \A a \in DOMAIN as : as[a].area = a

\* The rejection of add_trade and add_trade_for_report.
AreaMismatch == Err("Trade area has to match ReportEntry area")

(***************************************************************************)
(* C15: routing invariant.  At every step of every constructor's fold each *)
(* entry stored in the areas map under the key a has entry.area = a, so no *)
(* add is rejected for an area mismatch and no constructor returns that    *)
(* error, for any input sequence.                                          *)
(***************************************************************************)
C15_EntriesAreRoutedByArea ==
    /\ [](pc = "try_next" => Routed(areas))
    /\ []((Returned /\ result.tag = "Ok") => Routed(result.value.areas))
    /\ [](Returned => result # AreaMismatch)
    /\ [][ PullsTrade =>
             /\ StreamBody(areas, trades[pos + 1].trade).tag = "Ok"
             /\ areas'[trades[pos + 1].trade.area].area = trades[pos + 1].trade.area
          ]_vars
    /\ [][ (pc \in BulkEntries) =>
             \A k \in 0..Len(trades) :
                LET folded == FoldedPrefix(pc, trades, k)
                IN folded.tag = "Ok" /\ Routed(folded.value) ]_vars

\* C15 witness: new_from_stream has routed trades of DK1, DK2 and DK1 again
\* to two entries.
C15_Witness ==
    /\ pc = "try_next" /\ pos = 3
    /\ trades[1].trade.area = "DK1"
    /\ trades[2].trade.area = "DK2"
    /\ trades[3].trade.area = "DK1"
    /\ DOMAIN areas = {"DK1", "DK2"}
    /\ areas["DK1"].area = "DK1" /\ areas["DK2"].area = "DK2"
    /\ areas["DK1"].mw # EmptyMap /\ areas["DK2"].mw # EmptyMap

\* The add operation of the constructor entered at `entry`, and the trades it
\* is given.
AddOf(entry, e, t) ==
    IF entry = "new_from_trade_for_report" THEN ReportEntry_add_trade_for_report(e, t)
    ELSE ReportEntry_add_trade(e, t)

UniverseOf(entry) ==
    IF entry = "new_from_trade_for_report" THEN TradesForReport ELSE Trades

\* The volume map and the cash_flow map of an entry have the same keys.
SameKeys(e) == DOMAIN e.mw = DOMAIN e.cash_flow

\* Entry e has the same keys in both maps, keeps that through every add, and
\* is left as it is by an add that is rejected or whose trade has no price.
MovesTogether(entry, e) ==
    /\ SameKeys(e)
    /\ \A t \in UniverseOf(entry) :
          LET r == AddOf(entry, e, t)
              after == SelfAfter(e, r)
          IN /\ SameKeys(after)
             /\ t.area # e.area =>
                   (r = AreaMismatch /\ after.mw = e.mw /\ after.cash_flow = e.cash_flow)
             /\ (t.area = e.area /\ ~t.price.some) =>
                   (r.tag = "Ok" /\ after.mw = e.mw /\ after.cash_flow = e.cash_flow)
             /\ (t.area = e.area /\ t.price.some) =>
                   (r.tag = "Ok" /\ DOMAIN after.mw # {})

(***************************************************************************)
(* C16: the two totals maps of an entry move together.  After any sequence *)
(* of adds a (side, market) key is in the volume map exactly when it is in *)
(* the cash_flow map; an add that is rejected for its area, or whose trade *)
(* has no price, leaves both maps as they were.                            *)
(***************************************************************************)
C16_TotalsMapsMoveTogether ==
    /\ [](pc = "try_next" =>
            \A a \in DOMAIN areas : MovesTogether("new_from_stream", areas[a]))
    /\ []((Returned /\ result.tag = "Ok") =>
            \A a \in DOMAIN result.value.areas : SameKeys(result.value.areas[a]))
    /\ [][ (pc \in BulkEntries) =>
             \A k \in 0..Len(trades) :
                LET folded == FoldedPrefix(pc, trades, k).value
                IN \A a \in DOMAIN folded : MovesTogether(pc, folded[a]) ]_vars
    /\ [][ (PullsTrade /\ ~trades[pos + 1].trade.price.some
                       /\ trades[pos + 1].trade.area \in DOMAIN areas)
             => areas' = areas ]_vars

\* C16 witness: new_from_stream has added a trade without a price to an entry
\* that holds one bucket, in both maps.
C16_Witness ==
    /\ pc = "try_next" /\ pos = 2
    /\ ~trades[2].trade.price.some
    /\ trades[2].trade.area = "DK1"
    /\ DOMAIN areas = {"DK1"}
    /\ DOMAIN areas["DK1"].mw = {<<"Buy", "Intraday">>}
    /\ DOMAIN areas["DK1"].cash_flow = {<<"Buy", "Intraday">>}

\* The areas of the first k trades of ts.
AreasOfFirst(ts, k) == AreasOf(SubSeq(ts, 1, k))

\* No trade of ts in area a has a price.
AllUnpriced(ts, a) ==
    \A i \in DOMAIN ts : TradeOf(ts[i]).area = a => ~TradeOf(ts[i]).price.some

(***************************************************************************)
(* C17: entries are created lazily, on the first trade of an area, priced  *)
(* or not.  While a constructor folds, the keys of the areas map are the   *)
(* areas of the trades consumed so far; after a successful construction    *)
(* they are the areas of all its trades, and an area whose trades all lack *)
(* a price has an entry whose volume and cash_flow maps are both empty.    *)
(***************************************************************************)
C17_EntriesAreCreatedLazily ==
    /\ [](pc = "try_next" => DOMAIN areas = AreasOfFirst(trades, pos))
    /\ [][ PullsTrade =>
             LET t == trades[pos + 1].trade
             IN /\ DOMAIN areas' = DOMAIN areas \cup {t.area}
                /\ (t.area \notin DOMAIN areas /\ ~t.price.some)
                      => areas'[t.area] = ReportEntry_new(t.area) ]_vars
    /\ [][ (pc \in BulkEntries) =>
             \A k \in 0..Len(trades) :
                DOMAIN FoldedPrefix(pc, trades, k).value = AreasOfFirst(trades, k) ]_vars
    /\ [][ ReturnsReport =>
             /\ DOMAIN result'.value.areas \subseteq AreasOf(trades)
             /\ \A a \in AreasOf(trades) :
                   /\ a \in DOMAIN result'.value.areas
                   /\ AllUnpriced(trades, a)
                         => result'.value.areas[a] = ReportEntry_new(a) ]_vars

\* C17 witness: a returned report with an entry of DK2 whose two maps are
\* empty, beside an entry of DK1 that holds a bucket.
C17_Witness ==
    /\ pc = "returned" /\ result.tag = "Ok"
    /\ DOMAIN result.value.areas = {"DK1", "DK2"}
    /\ result.value.areas["DK2"].mw = EmptyMap
    /\ result.value.areas["DK2"].cash_flow = EmptyMap
    /\ result.value.areas["DK1"].mw # EmptyMap

====
